---- MODULE Spec2Model ----
(***************************************************************************)
(* Account-data decoding layer of solana-account-decoder-client-types.     *)
(*                                                                         *)
(* Strings are sequences of ASCII codes and byte vectors are sequences of  *)
(* 0..255, so that base58, base64 and the compressed-frame codec are       *)
(* computed symbol by symbol as the libraries compute them.                *)
(***************************************************************************)
EXTENDS Integers, Sequences, FiniteSets, TLC

(***************************************************************************)
(* Option<T>                                                               *)
(***************************************************************************)
None == [some |-> FALSE]
Some(x) == [some |-> TRUE, v |-> x]
IsSome(o) == o.some

Reverse(s) == [i \in 1..Len(s) |-> s[Len(s) + 1 - i]]

\* number of leading elements of s equal to x
RECURSIVE LeadingCount(_, _)
LeadingCount(s, x) ==
  IF s = <<>> \/ Head(s) # x THEN 0 ELSE 1 + LeadingCount(Tail(s), x)

(***************************************************************************)
(* bs58 (Bitcoin alphabet)                                                 *)
(***************************************************************************)
B58Alphabet ==
  <<49, 50, 51, 52, 53, 54, 55, 56, 57, 65, 66, 67, 68, 69, 70, 71, 72, 74,
    75, 76, 77, 78, 80, 81, 82, 83, 84, 85, 86, 87, 88, 89, 90, 97, 98, 99,
    100, 101, 102, 103, 104, 105, 106, 107, 109, 110, 111, 112, 113, 114,
    115, 116, 117, 118, 119, 120, 121, 122>>

\* the alphabet's decode table: the value of a symbol, 255 for any other byte
B58DecodeTable ==
  [c \in 0..255 |->
     IF \E i \in 1..Len(B58Alphabet) : B58Alphabet[i] = c
       THEN (CHOOSE i \in 1..Len(B58Alphabet) : B58Alphabet[i] = c) - 1
       ELSE 255]
IsB58Char(c) == B58DecodeTable[c] # 255
B58Value(c) == B58DecodeTable[c]

\* little-endian digit vector out (radix base) := out * mul + val
RECURSIVE MulAdd(_, _, _, _, _)
MulAdd(out, i, val, mul, base) ==
  IF i > Len(out)
    THEN IF val = 0 THEN out
         ELSE MulAdd(Append(out, val % base), i + 1, val \div base, mul, base)
    ELSE LET v == val + (out[i] * mul)
         IN  MulAdd([out EXCEPT ![i] = v % base], i + 1, v \div base, mul, base)

\* fold of the symbols of s (already checked to be base58) into bytes
RECURSIVE B58Fold(_, _)
B58Fold(s, out) ==
  IF s = <<>> THEN out
  ELSE B58Fold(Tail(s), MulAdd(out, 1, B58Value(Head(s)), 58, 256))

\* bs58::decode(blob).into_vec().ok()
bs58_decode(blob) ==
  IF \E i \in 1..Len(blob) : ~IsB58Char(blob[i]) THEN None
  ELSE LET le == B58Fold(blob, <<>>)
           zeros == [i \in 1..LeadingCount(blob, B58Alphabet[1]) |-> 0]
       IN  Some(Reverse(le \o zeros))

RECURSIVE B58EncFold(_, _)
B58EncFold(bytes, out) ==
  IF bytes = <<>> THEN out
  ELSE B58EncFold(Tail(bytes), MulAdd(out, 1, Head(bytes), 256, 58))

\* bs58::encode(bytes).into_string()
bs58_encode(bytes) ==
  LET le == B58EncFold(bytes, <<>>)
      zeros == [i \in 1..LeadingCount(bytes, 0) |-> 0]
      digits == Reverse(le \o zeros)
  IN  [i \in 1..Len(digits) |-> B58Alphabet[digits[i] + 1]]

(***************************************************************************)
(* base64 (BASE64_STANDARD: standard alphabet, canonical padding required, *)
(* non-zero trailing bits rejected)                                        *)
(***************************************************************************)
B64Alphabet ==
  <<65, 66, 67, 68, 69, 70, 71, 72, 73, 74, 75, 76, 77, 78, 79, 80, 81, 82,
    83, 84, 85, 86, 87, 88, 89, 90, 97, 98, 99, 100, 101, 102, 103, 104, 105,
    106, 107, 108, 109, 110, 111, 112, 113, 114, 115, 116, 117, 118, 119,
    120, 121, 122, 48, 49, 50, 51, 52, 53, 54, 55, 56, 57, 43, 47>>
B64Pad == 61

\* the engine's decode table: the value of a symbol, 255 for any other byte
B64DecodeTable ==
  [c \in 0..255 |->
     IF \E i \in 1..Len(B64Alphabet) : B64Alphabet[i] = c
       THEN (CHOOSE i \in 1..Len(B64Alphabet) : B64Alphabet[i] = c) - 1
       ELSE 255]
IsB64Char(c) == B64DecodeTable[c] # 255
B64Value(c) == B64DecodeTable[c]

\* bytes of the complete quads of symbol values v, from quad q on
RECURSIVE B64Quads(_, _, _)
B64Quads(v, q, nq) ==
  IF q > nq THEN <<>>
  ELSE LET a == v[4 * q - 3]
           b == v[4 * q - 2]
           c == v[4 * q - 1]
           d == v[4 * q]
       IN  <<(a * 4) + (b \div 16), ((b % 16) * 16) + (c \div 4), ((c % 4) * 64) + d>>
             \o B64Quads(v, q + 1, nq)

\* BASE64_STANDARD.decode(blob).ok()
base64_decode(blob) ==
  LET n == Len(blob)
      p == IF n >= 1 /\ blob[n] = B64Pad
             THEN IF n >= 2 /\ blob[n - 1] = B64Pad THEN 2 ELSE 1
             ELSE 0
      m == n - p
  IN  IF n % 4 # 0 THEN None
      ELSE IF \E i \in 1..m : ~IsB64Char(blob[i]) THEN None
      ELSE LET v == [i \in 1..m |-> B64Value(blob[i])]
               full == B64Quads(v, 1, m \div 4)
           IN  CASE p = 0 -> Some(full)
                 [] p = 1 -> IF v[m] % 4 # 0 THEN None
                             ELSE Some(full \o <<(v[m - 2] * 4) + (v[m - 1] \div 16),
                                                 ((v[m - 1] % 16) * 16) + (v[m] \div 4)>>)
                 [] p = 2 -> IF v[m] % 16 # 0 THEN None
                             ELSE Some(full \o <<(v[m - 1] * 4) + (v[m] \div 16)>>)

B64Sym(n) == B64Alphabet[n + 1]

RECURSIVE B64EncChunks(_)
B64EncChunks(b) ==
  IF Len(b) = 0 THEN <<>>
  ELSE IF Len(b) = 1
    THEN <<B64Sym(b[1] \div 4), B64Sym((b[1] % 4) * 16), B64Pad, B64Pad>>
  ELSE IF Len(b) = 2
    THEN <<B64Sym(b[1] \div 4),
           B64Sym(((b[1] % 4) * 16) + (b[2] \div 16)),
           B64Sym((b[2] % 16) * 4), B64Pad>>
  ELSE <<B64Sym(b[1] \div 4),
         B64Sym(((b[1] % 4) * 16) + (b[2] \div 16)),
         B64Sym(((b[2] % 16) * 4) + (b[3] \div 64)),
         B64Sym(b[3] % 64)>>
         \o B64EncChunks(SubSeq(b, 4, Len(b)))

\* BASE64_STANDARD.encode(bytes)
base64_encode(bytes) == B64EncChunks(bytes)

(***************************************************************************)
(* zstd frames.  The decoder covers the frame format for frames made of    *)
(* Raw and RLE blocks, without dictionary and without content checksum,    *)
(* which is what zstd_compress below emits; entropy-coded blocks and       *)
(* checksummed frames are not among the inputs of this model.              *)
(***************************************************************************)
ZstdMagic == <<40, 181, 47, 253>>
ZstdBlockSizeMax == 131072
ZstdWindowLogMax == 27

\* little-endian value of a field of at most three significant bytes
LEValue(f) ==
  IF \E i \in 4..Len(f) : f[i] # 0 THEN -1
  ELSE (IF Len(f) >= 1 THEN f[1] ELSE 0)
       + (IF Len(f) >= 2 THEN f[2] * 256 ELSE 0)
       + (IF Len(f) >= 3 THEN f[3] * 65536 ELSE 0)

\* blocks of one frame: Some([out, rest]) after the last block, or None
RECURSIVE ZstdBlocks(_, _)
ZstdBlocks(s, out) ==
  IF Len(s) < 3 THEN None
  ELSE LET h == LEValue(SubSeq(s, 1, 3))
           last == h % 2
           type == (h \div 2) % 4
           size == h \div 8
           body == SubSeq(s, 4, Len(s))
           Cont(o, rest) == IF last = 1 THEN Some([out |-> o, rest |-> rest])
                            ELSE ZstdBlocks(rest, o)
       IN  IF size > ZstdBlockSizeMax THEN None
           ELSE IF type = 0
             THEN IF Len(body) < size THEN None
                  ELSE Cont(out \o SubSeq(body, 1, size),
                            SubSeq(body, size + 1, Len(body)))
           ELSE IF type = 1
             THEN IF Len(body) < 1 THEN None
                  ELSE Cont(out \o [i \in 1..size |-> body[1]], Tail(body))
           ELSE None

\* one frame at the head of s: Some([out, rest]) or None
ZstdFrame(s) ==
  IF Len(s) < 5 \/ SubSeq(s, 1, 4) # ZstdMagic THEN None
  ELSE LET fhd == s[5]
           fcsFlag == fhd \div 64
           single == (fhd \div 32) % 2
           reserved == (fhd \div 8) % 2
           checksum == (fhd \div 4) % 2
           dict == fhd % 4
           wdLen == 1 - single
           fcsLen == CASE fcsFlag = 0 -> single
                       [] fcsFlag = 1 -> 2
                       [] fcsFlag = 2 -> 4
                       [] fcsFlag = 3 -> 8
           hdrLen == 5 + wdLen + fcsLen
       IN  IF reserved = 1 \/ checksum = 1 \/ dict # 0 \/ Len(s) < hdrLen
             THEN None
           ELSE IF wdLen = 1 /\ 10 + (s[6] \div 8) > ZstdWindowLogMax THEN None
           ELSE LET fcs == LEValue(SubSeq(s, 6 + wdLen, 5 + wdLen + fcsLen))
                           + (IF fcsFlag = 1 THEN 256 ELSE 0)
                    r == ZstdBlocks(SubSeq(s, hdrLen + 1, Len(s)), <<>>)
                IN  IF ~IsSome(r) THEN None
                    ELSE IF fcsLen > 0 /\ Len(r.v.out) # fcs THEN None
                    ELSE r

\* the frames of a stream, one after the other, until the input is used up
RECURSIVE ZstdFrames(_, _)
ZstdFrames(s, out) ==
  IF s = <<>> THEN Some(out)
  ELSE LET r == ZstdFrame(s)
       IN  IF ~IsSome(r) THEN None ELSE ZstdFrames(r.v.rest, out \o r.v.out)

\* zstd::stream::read::Decoder::new(..).and_then(read_to_end).ok()
\* an empty stream is an incomplete frame
zstd_decode(zstd_data) ==
  IF zstd_data = <<>> THEN None ELSE ZstdFrames(zstd_data, <<>>)

IsUniform(b) == \A i \in 1..Len(b) : b[i] = b[1]

\* a one-frame, one-block encoding of b by the streaming encoder: the
\* window descriptor follows the level; from level 2 on a run of one byte
\* value is emitted as an RLE block
zstd_compress(b, level) ==
  LET wd == (8 + level) * 8
      rle == level >= 2 /\ Len(b) >= 2 /\ IsUniform(b)
      h == (Len(b) * 8) + (IF rle THEN 2 ELSE 0) + 1
      hdr == <<h % 256, (h \div 256) % 256, h \div 65536>>
  IN  ZstdMagic \o <<0, wd>> \o hdr \o (IF rle THEN <<b[1]>> ELSE b)

(***************************************************************************)
(* UiAccountData and UiAccountEncoding                                     *)
(***************************************************************************)
UiAccountEncoding == {"Binary", "Base58", "Base64", "JsonParsed", "Base64Zstd"}

LegacyBinary(blob) == [kind |-> "LegacyBinary", blob |-> blob]
Json(parsed) == [kind |-> "Json", parsed |-> parsed]
Binary(blob, encoding) == [kind |-> "Binary", blob |-> blob, encoding |-> encoding]

ParsedAccount(program, parsed, space) ==
  [program |-> program, parsed |-> parsed, space |-> space]

\* the Base64Zstd arm under cfg(feature = "zstd") / cfg(not(feature = "zstd"))
Base64ZstdDecode(blob, zstd) ==
  IF zstd
    THEN LET z == base64_decode(blob)
         IN  IF IsSome(z) THEN zstd_decode(z.v) ELSE None
    ELSE None

\* variant: the legacy Binary tag read as base58, like LegacyBinary
UiAccountData_decode_binary_tag(self, zstd) ==
  CASE self.kind = "Json" -> None
    [] self.kind = "LegacyBinary" -> bs58_decode(self.blob)
    [] self.kind = "Binary" ->
         CASE self.encoding = "Base58" -> bs58_decode(self.blob)
           [] self.encoding = "Base64" -> base64_decode(self.blob)
           [] self.encoding = "Base64Zstd" -> Base64ZstdDecode(self.blob, zstd)
           [] self.encoding = "Binary" -> bs58_decode(self.blob)
           [] self.encoding = "JsonParsed" -> None

\* variant: LegacyBinary read with the base64 codec
UiAccountData_decode_legacy_base64(self, zstd) ==
  CASE self.kind = "Json" -> None
    [] self.kind = "LegacyBinary" -> base64_decode(self.blob)
    [] self.kind = "Binary" ->
         CASE self.encoding = "Base58" -> bs58_decode(self.blob)
           [] self.encoding = "Base64" -> base64_decode(self.blob)
           [] self.encoding = "Base64Zstd" -> Base64ZstdDecode(self.blob, zstd)
           [] self.encoding \in {"Binary", "JsonParsed"} -> None

\* UiAccountData::decode
UiAccountData_decode(self, zstd) ==
  CASE self.kind = "Json" -> None
    [] self.kind = "LegacyBinary" -> bs58_decode(self.blob)
    [] self.kind = "Binary" ->
         CASE self.encoding = "Base58" -> bs58_decode(self.blob)
           [] self.encoding = "Base64" -> base64_decode(self.blob)
           [] self.encoding = "Base64Zstd" -> Base64ZstdDecode(self.blob, zstd)
           [] self.encoding \in {"Binary", "JsonParsed"} -> None

\* .map(|v| v.len() as u64)
MapLen(o) == IF IsSome(o) THEN Some(Len(o.v)) ELSE None

\* variant: the size of a Json container derived by decoding
UiAccountData_space_json_derived(self, zstd) ==
  CASE self.kind = "Json" -> MapLen(None)
    [] self.kind = "LegacyBinary" -> MapLen(bs58_decode(self.blob))
    [] self.kind = "Binary" ->
         CASE self.encoding = "Base58" -> MapLen(bs58_decode(self.blob))
           [] self.encoding = "Base64" -> MapLen(base64_decode(self.blob))
           [] self.encoding = "Base64Zstd" ->
                MapLen(Base64ZstdDecode(self.blob, zstd))
           [] self.encoding \in {"Binary", "JsonParsed"} -> None

\* variant: the size of a Base64Zstd container taken before decompression
UiAccountData_space_compressed_len(self, zstd) ==
  CASE self.kind = "Json" -> Some(self.parsed.space)
    [] self.kind = "LegacyBinary" -> MapLen(bs58_decode(self.blob))
    [] self.kind = "Binary" ->
         CASE self.encoding = "Base58" -> MapLen(bs58_decode(self.blob))
           [] self.encoding = "Base64" -> MapLen(base64_decode(self.blob))
           [] self.encoding = "Base64Zstd" ->
                IF zstd /\ IsSome(Base64ZstdDecode(self.blob, zstd))
                  THEN MapLen(base64_decode(self.blob))
                  ELSE None
           [] self.encoding \in {"Binary", "JsonParsed"} -> None

\* UiAccountData::space
UiAccountData_space(self, zstd) ==
  CASE self.kind = "Json" -> Some(self.parsed.space)
    [] self.kind = "LegacyBinary" -> MapLen(bs58_decode(self.blob))
    [] self.kind = "Binary" ->
         CASE self.encoding = "Base58" -> MapLen(bs58_decode(self.blob))
           [] self.encoding = "Base64" -> MapLen(base64_decode(self.blob))
           [] self.encoding = "Base64Zstd" ->
                MapLen(Base64ZstdDecode(self.blob, zstd))
           [] self.encoding \in {"Binary", "JsonParsed"} -> None

\* variant: the JsonParsed encoding tag taken for the Json shape
is_json_parsed_by_tag(self) ==
  self.kind = "Json" \/ (self.kind = "Binary" /\ self.encoding = "JsonParsed")

\* UiAccountData::is_json_parsed
is_json_parsed(self) == self.kind = "Json"

\* UiAccountData::as_parsed
as_parsed(self) == IF self.kind = "Json" THEN Some(self.parsed) ELSE None

(***************************************************************************)
(* Wire form: JSON values, and the derived Deserialize implementations     *)
(***************************************************************************)
JNull == [t |-> "null"]
JStr(s) == [t |-> "string", str |-> s]
JNum(n) == [t |-> "number", num |-> n]
JArr(es) == [t |-> "array", arr |-> es]
JObj(fields) == [t |-> "object", obj |-> fields]

\* the variant names under rename_all = "camelCase" and the explicit rename
EncodingName(e) ==
  CASE e = "Binary" -> <<98, 105, 110, 97, 114, 121>>
    [] e = "Base58" -> <<98, 97, 115, 101, 53, 56>>
    [] e = "Base64" -> <<98, 97, 115, 101, 54, 52>>
    [] e = "JsonParsed" -> <<106, 115, 111, 110, 80, 97, 114, 115, 101, 100>>
    [] e = "Base64Zstd" -> <<98, 97, 115, 101, 54, 52, 43, 122, 115, 116, 100>>

\* the same names as keys of a JSON object
EncodingKey(e) ==
  CASE e = "Binary" -> "binary"
    [] e = "Base58" -> "base58"
    [] e = "Base64" -> "base64"
    [] e = "JsonParsed" -> "jsonParsed"
    [] e = "Base64Zstd" -> "base64+zstd"

IsU64(j) == j.t = "number" /\ j.num >= 0

\* Deserialize for UiAccountEncoding (an enum of unit variants): the variant
\* name as a string, or a one-entry map from the variant name to null
UiAccountEncoding_deserialize(j) ==
  IF j.t = "string" /\ \E e \in UiAccountEncoding : EncodingName(e) = j.str
    THEN Some(CHOOSE e \in UiAccountEncoding : EncodingName(e) = j.str)
  ELSE IF j.t = "object" /\ \E e \in UiAccountEncoding :
            DOMAIN j.obj = {EncodingKey(e)} /\ j.obj[EncodingKey(e)].t = "null"
    THEN Some(CHOOSE e \in UiAccountEncoding : DOMAIN j.obj = {EncodingKey(e)})
  ELSE None

\* Deserialize for ParsedAccount (a struct): from a map with the three
\* fields (unknown fields are ignored), or from a sequence of exactly the
\* three field values in declaration order
ParsedAccount_deserialize(j) ==
  IF j.t = "object"
    THEN IF {"program", "parsed", "space"} \subseteq DOMAIN j.obj
              /\ j.obj["program"].t = "string" /\ IsU64(j.obj["space"])
           THEN Some(ParsedAccount(j.obj["program"].str, j.obj["parsed"],
                                   j.obj["space"].num))
           ELSE None
  ELSE IF j.t = "array"
    THEN IF Len(j.arr) = 3 /\ j.arr[1].t = "string" /\ IsU64(j.arr[3])
           THEN Some(ParsedAccount(j.arr[1].str, j.arr[2], j.arr[3].num))
           ELSE None
  ELSE None

\* Deserialize for UiAccountData (untagged): the variants are tried in
\* declaration order and the first that deserializes wins
UiAccountData_deserialize(j) ==
  IF j.t = "string" THEN Some(LegacyBinary(j.str))
  ELSE IF IsSome(ParsedAccount_deserialize(j))
    THEN Some(Json(ParsedAccount_deserialize(j).v))
  ELSE IF j.t = "array" /\ Len(j.arr) = 2 /\ j.arr[1].t = "string"
          /\ IsSome(UiAccountEncoding_deserialize(j.arr[2]))
    THEN Some(Binary(j.arr[1].str, UiAccountEncoding_deserialize(j.arr[2]).v))
  ELSE None

\* Deserialize for UiAccount: the typed fields as sent, the data field by
\* UiAccountData's Deserialize
UiAccount_deserialize(w) ==
  LET d == UiAccountData_deserialize(w.data)
  IN  IF IsSome(d)
        THEN Some([lamports |-> w.lamports, data |-> d.v, owner |-> w.owner,
                   executable |-> w.executable, rent_epoch |-> w.rentEpoch,
                   space |-> w.space])
        ELSE None

(***************************************************************************)
(* Pubkey and Account                                                      *)
(***************************************************************************)
PUBKEY_BYTES == 32
MAX_BASE58_LEN == 44

\* Pubkey::from_str(s).ok()
Pubkey_from_str(s) ==
  IF Len(s) > MAX_BASE58_LEN THEN None
  ELSE LET d == bs58_decode(s)
       IN  IF IsSome(d) /\ Len(d.v) = PUBKEY_BYTES THEN d ELSE None

\* <Account as WritableAccount>::create
Account_create(lamports, data, owner, executable, rent_epoch) ==
  [lamports |-> lamports, data |-> data, owner |-> owner,
   executable |-> executable, rent_epoch |-> rent_epoch]

(***************************************************************************)
(* UiAccount                                                               *)
(***************************************************************************)
\* variant: missing bytes replaced by an empty vector
UiAccount_decode_default_data(self, zstd) ==
  LET data == UiAccountData_decode(self.data, zstd)
      owner == Pubkey_from_str(self.owner)
  IN  IF ~IsSome(owner) THEN None
      ELSE Some(Account_create(self.lamports,
                               IF IsSome(data) THEN data.v ELSE <<>>,
                               owner.v, self.executable, self.rent_epoch))

\* UiAccount::decode
UiAccount_decode(self, zstd) ==
  LET data == UiAccountData_decode(self.data, zstd)
  IN  IF ~IsSome(data) THEN None
      ELSE LET owner == Pubkey_from_str(self.owner)
           IN  IF ~IsSome(owner) THEN None
               ELSE Some(Account_create(self.lamports, data.v, owner.v,
                                        self.executable, self.rent_epoch))

\* variant: the fallback account filled with parsed.space zero bytes
try_decode_with_fallback_zero_filled(self, zstd) ==
  LET owner == Pubkey_from_str(self.owner)
  IN  IF ~IsSome(owner) THEN None
      ELSE LET data == UiAccountData_decode(self.data, zstd)
           IN  IF IsSome(data)
                 THEN Some(<<Account_create(self.lamports, data.v, owner.v,
                                            self.executable, self.rent_epoch),
                             FALSE>>)
               ELSE IF is_json_parsed(self.data)
                 THEN Some(<<Account_create(self.lamports,
                                            [i \in 1..self.data.parsed.space |-> 0],
                                            owner.v, self.executable,
                                            self.rent_epoch),
                             TRUE>>)
               ELSE None

\* variant: the fallback account built with the default address when the
\* owner string does not parse
try_decode_with_fallback_default_owner(self, zstd) ==
  LET owner == Pubkey_from_str(self.owner)
      data == UiAccountData_decode(self.data, zstd)
  IN  IF IsSome(data)
        THEN IF ~IsSome(owner) THEN None
             ELSE Some(<<Account_create(self.lamports, data.v, owner.v,
                                        self.executable, self.rent_epoch),
                         FALSE>>)
      ELSE IF is_json_parsed(self.data)
        THEN Some(<<Account_create(self.lamports, <<>>,
                                   IF IsSome(owner) THEN owner.v
                                   ELSE [i \in 1..PUBKEY_BYTES |-> 0],
                                   self.executable, self.rent_epoch),
                    TRUE>>)
      ELSE None

\* UiAccount::try_decode_with_fallback
try_decode_with_fallback(self, zstd) ==
  LET owner == Pubkey_from_str(self.owner)
  IN  IF ~IsSome(owner) THEN None
      ELSE LET data == UiAccountData_decode(self.data, zstd)
           IN  IF IsSome(data)
                 THEN Some(<<Account_create(self.lamports, data.v, owner.v,
                                            self.executable, self.rent_epoch),
                             FALSE>>)
               ELSE IF is_json_parsed(self.data)
                 THEN Some(<<Account_create(self.lamports, <<>>, owner.v,
                                            self.executable, self.rent_epoch),
                             TRUE>>)
               ELSE None

(***************************************************************************)
(* Inputs                                                                  *)
(***************************************************************************)
MaxBlobLen == 4
MaxRawLen == 2

\* "Q", "=" : symbols of which one is in both alphabets and one in neither
BlobChars == {81, 61}
\* 0x00, "A", 0xff
RawBytes == {0, 65, 255}
ZstdLevels == {1, 2}

SeqsUpTo(S, n) == UNION {[1..k -> S] : k \in 0..n}

TestData == <<116, 101, 115, 116, 32, 100, 97, 116, 97>>

\* "dGVzdCBkYXRh", "not-valid-b64!!", "Q1==", "1Q", "1111"
ExtraBlobs ==
  { <<100, 71, 86, 122, 100, 67, 66, 107, 89, 88, 82, 104>>,
    <<110, 111, 116, 45, 118, 97, 108, 105, 100, 45, 98, 54, 52, 33, 33>>,
    <<81, 49, 61, 61>>, <<49, 81>>, <<49, 49, 49, 49>> }

Blobs == SeqsUpTo(BlobChars, MaxBlobLen) \cup ExtraBlobs
Raws == SeqsUpTo(RawBytes, MaxRawLen) \cup {TestData}

Tagged(blob, e) == JArr(<<JStr(blob), JStr(EncodingName(e))>>)

\* "spl-token", "x"
Programs == { <<115, 112, 108, 45, 116, 111, 107, 101, 110>>, <<120>> }
\* opaque documents: null, a string that is valid base64 and base58, an
\* object
Documents == { JNull, JStr(<<81, 81, 81, 81>>),
               JObj([type |-> JStr(<<97>>)]) }
Spaces == {0, 165}

StructuredWire ==
  { JObj([program |-> JStr(p), parsed |-> d, space |-> JNum(n)]) :
      p \in Programs, d \in Documents, n \in Spaces }

\* values of other shapes
OtherWire ==
  { JNull, JNum(165), JArr(<<>>), JArr(<<JStr(<<81>>)>>),
    JArr(<<JStr(<<81>>), JStr(<<98, 111, 103, 117, 115>>)>>),
    JArr(<<JNum(1), JStr(EncodingName("Base64"))>>),
    JArr(<<JStr(<<81, 81, 61, 61>>), JObj([base64 |-> JNull])>>),
    JArr(<<JStr(<<81, 81, 61, 61>>), JStr(EncodingName("Base64")), JNull>>),
    JArr(<<JStr(<<120>>), JNull, JNum(165)>>),
    JArr(<<JStr(<<120>>), JStr(EncodingName("Base64")), JNum(0)>>),
    JArr(<<JStr(<<120>>), JNull, JNum(165), JNull>>),
    JArr(<<JStr(<<120>>), JNull, JNum(-1)>>),
    JObj([program |-> JStr(<<120>>), space |-> JNum(165)]),
    JObj([program |-> JStr(<<120>>), parsed |-> JNull, space |-> JNum(-1)]),
    JObj([program |-> JNum(1), parsed |-> JNull, space |-> JNum(165)]),
    JObj([program |-> JStr(<<120>>), parsed |-> JNull, space |-> JNum(165),
          extra |-> JNull]) }

WireData ==
  { JStr(b) : b \in Blobs }
    \cup { Tagged(b, e) : b \in Blobs, e \in UiAccountEncoding }
    \cup { JStr(bs58_encode(r)) : r \in Raws }
    \cup { Tagged(bs58_encode(r), "Base58") : r \in Raws }
    \cup { Tagged(base64_encode(r), "Base64") : r \in Raws }
    \cup { Tagged(base64_encode(zstd_compress(r, l)), "Base64Zstd") :
             r \in Raws, l \in ZstdLevels }
    \cup StructuredWire \cup OtherWire

\* "11111111111111111111111111111111"
SystemProgram == [i \in 1..32 |-> 49]
\* "1111111111111111111111111111111Q": 31 zero bytes and the byte 23
SmallAddress == [i \in 1..32 |-> IF i = 32 THEN 81 ELSE 49]
\* two addresses, a string that is base58 of too few bytes ("1111"), and
\* one with a symbol outside the alphabet ("0" for the last "1")
Owners == { SystemProgram, SmallAddress, <<49, 49, 49, 49>>,
            [i \in 1..32 |-> IF i = 32 THEN 48 ELSE 49] }

Metas ==
  { [lamports |-> 2039280, executable |-> FALSE, rentEpoch |-> 361,
     space |-> Some(165)],
    [lamports |-> 1000000, executable |-> TRUE, rentEpoch |-> 0,
     space |-> None] }

WireAccounts ==
  { [lamports |-> m.lamports, data |-> d, owner |-> o,
     executable |-> m.executable, rentEpoch |-> m.rentEpoch,
     space |-> m.space] : m \in Metas, d \in WireData, o \in Owners }

(***************************************************************************)
(* State                                                                   *)
(***************************************************************************)
VARIABLES
  feature_zstd,  \* whether the crate is built with feature "zstd"
  wire,          \* the account object of the RPC response
  pc,            \* "wire", "account" (deserialized) or "rejected"
  ui_account,    \* Some(UiAccount) once deserialized
  r_data,        \* result of ui_account.data.decode()
  r_space,       \* result of ui_account.data.space()
  r_decode,      \* result of ui_account.decode::<Account>()
  r_fallback     \* result of ui_account.try_decode_with_fallback::<Account>()

vars == <<feature_zstd, wire, pc, ui_account, r_data, r_space, r_decode,
          r_fallback>>

Pending == [done |-> FALSE]
Done(x) == [done |-> TRUE, v |-> x]

Init ==
  /\ feature_zstd \in BOOLEAN
  /\ wire \in WireAccounts
  /\ pc = "wire"
  /\ ui_account = None
  /\ r_data = Pending
  /\ r_space = Pending
  /\ r_decode = Pending
  /\ r_fallback = Pending

\* serde_json::from_value::<UiAccount>(wire)
Deserialize ==
  /\ pc = "wire"
  /\ ui_account' = UiAccount_deserialize(wire)
  /\ pc' = IF IsSome(ui_account') THEN "account" ELSE "rejected"
  /\ UNCHANGED <<feature_zstd, wire, r_data, r_space, r_decode, r_fallback>>

\* ui_account.data.decode()
DataDecode ==
  /\ pc = "account"
  /\ ~r_data.done
  /\ r_data' = Done(UiAccountData_decode(ui_account.v.data, feature_zstd))
  /\ UNCHANGED <<feature_zstd, wire, pc, ui_account, r_space, r_decode,
                 r_fallback>>

\* ui_account.data.space()
DataSpace ==
  /\ pc = "account"
  /\ ~r_space.done
  /\ r_space' = Done(UiAccountData_space(ui_account.v.data, feature_zstd))
  /\ UNCHANGED <<feature_zstd, wire, pc, ui_account, r_data, r_decode,
                 r_fallback>>

\* ui_account.decode::<Account>()
AccountDecode ==
  /\ pc = "account"
  /\ ~r_decode.done
  /\ r_decode' = Done(UiAccount_decode(ui_account.v, feature_zstd))
  /\ UNCHANGED <<feature_zstd, wire, pc, ui_account, r_data, r_space,
                 r_fallback>>

\* ui_account.try_decode_with_fallback::<Account>()
TryDecodeWithFallback ==
  /\ pc = "account"
  /\ ~r_fallback.done
  /\ r_fallback' = Done(try_decode_with_fallback(ui_account.v, feature_zstd))
  /\ UNCHANGED <<feature_zstd, wire, pc, ui_account, r_data, r_space,
                 r_decode>>

Next ==
  \/ Deserialize
  \/ DataDecode
  \/ DataSpace
  \/ AccountDecode
  \/ TryDecodeWithFallback

Spec == Init /\ [][Next]_vars

TypeOK ==
  /\ feature_zstd \in BOOLEAN
  /\ pc \in {"wire", "account", "rejected"}
  /\ (pc = "account") = IsSome(ui_account)
  /\ pc # "account" =>
       ~r_data.done /\ ~r_space.done /\ ~r_decode.done /\ ~r_fallback.done

(***************************************************************************)
(* Properties                                                              *)
(***************************************************************************)
acct == ui_account.v
data == ui_account.v.data
\* the address of each owner string of the inputs, if it has one
OwnerAddress == [o \in Owners |-> Pubkey_from_str(o)]
OwnerParses == IsSome(OwnerAddress[wire.owner])
Structured == ui_account.v.data.kind = "Json"
Tag(e) == ui_account.v.data.kind = "Binary" /\ ui_account.v.data.encoding = e

\* C1: on a Json (Structured) container with an owner that parses,
\* try_decode_with_fallback returns (account, true), the account having no
\* data bytes and the snapshot's lamports, owner, executable flag and rent
\* epoch, whatever the parsed document and the declared space are.
C1_StructuredFallback ==
  (r_fallback.done /\ Structured /\ OwnerParses) =>
    /\ IsSome(r_fallback.v)
    /\ r_fallback.v.v[2] = TRUE
    /\ r_fallback.v.v[1].data = <<>>
    /\ r_fallback.v.v[1].lamports = wire.lamports
    /\ r_fallback.v.v[1].owner = OwnerAddress[wire.owner].v
    /\ r_fallback.v.v[1].executable = wire.executable
    /\ r_fallback.v.v[1].rent_epoch = wire.rentEpoch

C1_Witness ==
  /\ r_fallback.done /\ Structured /\ OwnerParses
  /\ data.parsed.space = 165
  /\ data.parsed.parsed # JNull

\* C2: when the container is not Json and its bytes cannot be decoded
\* (malformed base58 or base64, corrupt compressed stream, or a Binary or
\* JsonParsed tag), try_decode_with_fallback returns none.
C2_NoFalseFallback ==
  /\ (r_fallback.done /\ r_data.done /\ ~Structured /\ ~IsSome(r_data.v)) =>
       r_fallback.v = None
  /\ (r_fallback.done /\ (Tag("Binary") \/ Tag("JsonParsed"))) =>
       r_fallback.v = None
  /\ (r_fallback.done /\ Tag("Base64")
        /\ data.blob = <<110, 111, 116, 45, 118, 97, 108, 105, 100, 45, 98,
                         54, 52, 33, 33>>) =>
       r_fallback.v = None

C2_Witness ==
  /\ r_fallback.done /\ r_data.done /\ OwnerParses
  /\ Tag("JsonParsed")
  /\ data.blob = <<81, 81, 81, 81>>
  /\ r_data.v = None

\* C3: for a Json container decode returns none and space returns exactly
\* the declared space of the parsed account, whatever the document, the
\* program name and the snapshot's own space field are.
C3_StructuredSpace ==
  /\ (r_data.done /\ Structured) => r_data.v = None
  /\ (r_space.done /\ Structured) => r_space.v = Some(data.parsed.space)
  /\ (r_space.done /\ wire.data \in StructuredWire) =>
       r_space.v = Some(wire.data.obj["space"].num)

C3_Witness ==
  /\ r_data.done /\ r_space.done /\ Structured
  /\ data.parsed.space = 0
  /\ acct.space = Some(165)

\* C4: with an owner that parses, UiAccount::decode returns an account
\* exactly when UiAccountData::decode returns bytes; the account is then
\* made of the snapshot's lamports, those bytes, the parsed owner, the
\* executable flag and the rent epoch, and without bytes the result is none.
C4_StrictDecode ==
  (r_decode.done /\ r_data.done /\ OwnerParses) =>
    /\ IsSome(r_decode.v) <=> IsSome(r_data.v)
    /\ IsSome(r_decode.v) =>
         r_decode.v.v = [lamports |-> wire.lamports, data |-> r_data.v.v,
                         owner |-> OwnerAddress[wire.owner].v,
                         executable |-> wire.executable,
                         rent_epoch |-> wire.rentEpoch]
    /\ Structured => r_decode.v = None

C4_Witness ==
  /\ r_decode.done /\ r_data.done /\ OwnerParses
  /\ Tag("Base64")
  /\ r_data.v = Some(TestData)

\* C5: with an owner that does not parse, UiAccount::decode and
\* try_decode_with_fallback both return none, whatever the container is.
C5_OwnerRequired ==
  /\ (r_decode.done /\ ~OwnerParses) => r_decode.v = None
  /\ (r_fallback.done /\ ~OwnerParses) => r_fallback.v = None

C5_Witness ==
  /\ r_decode.done /\ r_fallback.done /\ ~OwnerParses
  /\ Structured

\* C6: for a container that is not Json, space returns the length of the
\* bytes decode returns, and none exactly when decode returns none.
C6_SpaceIsDecodedLength ==
  (r_space.done /\ r_data.done /\ ~Structured) =>
    /\ IsSome(r_data.v) => r_space.v = Some(Len(r_data.v.v))
    /\ (r_space.v = None) <=> (r_data.v = None)

C6_Witness ==
  /\ r_space.done /\ r_data.done
  /\ Tag("Base64Zstd")
  /\ feature_zstd
  /\ r_data.v = Some(<<65, 65>>)

\* C7: a container tagged Binary or JsonParsed decodes to none and has no
\* space, also when its blob is valid base58 or valid base64.
C7_UnavailableTags ==
  /\ (r_data.done /\ (Tag("Binary") \/ Tag("JsonParsed"))) => r_data.v = None
  /\ (r_space.done /\ (Tag("Binary") \/ Tag("JsonParsed"))) => r_space.v = None

C7_Witness ==
  /\ r_data.done /\ r_space.done
  /\ Tag("Binary")
  /\ IsSome(bs58_decode(data.blob))
  /\ IsSome(base64_decode(data.blob))
  /\ data.blob # <<>>

\* the containers an encoder makes of the bytes r
Base64Of == [r \in Raws |-> base64_encode(r)]
Base58Of == [r \in Raws |-> bs58_encode(r)]
ZstdOf == [r \in Raws |->
             {base64_encode(zstd_compress(r, l)) : l \in ZstdLevels}]
IsBase64Of(r) == Tag("Base64") /\ data.blob = Base64Of[r]
IsLegacyOf(r) == data.kind = "LegacyBinary" /\ data.blob = Base58Of[r]
IsZstdOf(r) == Tag("Base64Zstd") /\ data.blob \in ZstdOf[r]

\* C8 as stated: decoding inverts encoding for base64, legacy base58 and
\* base64 of the compressed bytes at any level.
C8_RoundTrip_Original ==
  r_data.done =>
    \A r \in Raws :
      (IsBase64Of(r) \/ IsLegacyOf(r) \/ IsZstdOf(r)) => r_data.v = Some(r)

\* C8 (amended): decoding inverts encoding for base64 and legacy base58;
\* for base64 of the compressed bytes it does so in a build with the zstd
\* feature, and returns none in a build without it.
C8_RoundTrip ==
  r_data.done =>
    \A r \in Raws :
      /\ (IsBase64Of(r) \/ IsLegacyOf(r)) => r_data.v = Some(r)
      /\ (IsZstdOf(r) /\ feature_zstd) => r_data.v = Some(r)
      /\ (IsZstdOf(r) /\ ~feature_zstd) => r_data.v = None

C8_Witness ==
  /\ r_data.done
  /\ feature_zstd
  /\ IsZstdOf(TestData)
  /\ r_data.v = Some(TestData)

\* the three shapes of the data field
StringShape(j) == j.t = "string"
PairShape(j) ==
  /\ j.t = "array" /\ Len(j.arr) = 2
  /\ j.arr[1].t = "string" /\ j.arr[2].t = "string"
  /\ \E e \in UiAccountEncoding : j.arr[2].str = EncodingName(e)
ObjectShape(j) ==
  /\ j.t = "object"
  /\ {"program", "parsed", "space"} \subseteq DOMAIN j.obj
  /\ j.obj["program"].t = "string"
  /\ IsU64(j.obj["space"])

\* C9: deserialization maps an object with program/parsed/space to Json, a
\* two-element array [string, encoding tag] to Binary, a bare string to
\* LegacyBinary, and rejects a value of none of these shapes.
C9_ShapeDiscrimination ==
  pc # "wire" =>
    /\ ObjectShape(wire.data) => (pc = "account" /\ data.kind = "Json")
    /\ PairShape(wire.data) => (pc = "account" /\ data.kind = "Binary")
    /\ StringShape(wire.data) => (pc = "account" /\ data.kind = "LegacyBinary")
    /\ (~ObjectShape(wire.data) /\ ~PairShape(wire.data)
          /\ ~StringShape(wire.data)) => pc = "rejected"

\* C10: UiAccount::decode returns an account a exactly when
\* try_decode_with_fallback returns (a, false), and a returned flag is true
\* exactly when the container is Json; the JsonParsed tag never gives true.
C10_StrictAgreesWithFallback ==
  (r_decode.done /\ r_fallback.done) =>
    /\ IsSome(r_decode.v) <=> (IsSome(r_fallback.v) /\ r_fallback.v.v[2] = FALSE)
    /\ IsSome(r_decode.v) => r_fallback.v.v[1] = r_decode.v.v
    /\ IsSome(r_fallback.v) => (r_fallback.v.v[2] <=> Structured)
    /\ Tag("JsonParsed") => r_fallback.v = None

C10_Witness ==
  /\ r_decode.done /\ r_fallback.done
  /\ IsSome(r_decode.v)
  /\ r_fallback.v = Some(<<r_decode.v.v, FALSE>>)
  /\ Tag("Base58")

====
